---------------------------- MODULE Spec2Model ----------------------------
(***************************************************************************)
(* State-machine model of the two qiskit-metal components of               *)
(* qtl_packages: TurtleQubit (turtle_qubit.py) and XYTip (xy_tip.py).      *)
(*                                                                         *)
(* One design holds one component.  The host calls the component's make(), *)
(* which builds shapes in a local frame, rotates and translates them and   *)
(* registers them (add_qgeometry / add_pin).  The registry is the sequence *)
(* of those calls in the order they are issued.                            *)
(*                                                                         *)
(* Numbers.  Options are integers in micrometres.  Coordinates and lengths *)
(* of shapes are integers in quarter-micrometres, so that every 0.5*x and  *)
(* x/2/2 of the code is exact.  Angles (res_angle, rotation, orientation)  *)
(* are multiples of 90 degrees, where cos and sin are exact.  The claw     *)
(* wedge, whose vertices carry theta/2, keeps its vertices in the polar    *)
(* form the code writes them in (radius, angle), theta being the rational  *)
(* res_arc / r.                                                            *)
(*                                                                         *)
(* Shapes.  The boolean geometry library is external; a shape is the tree  *)
(* of library calls that built it (disk, polygon, line, boundary, buffer,  *)
(* intersect, subtract, union) with the coordinates those calls were given.*)
(* Point(c).buffer(r) is taken as the exact disk.                          *)
(***************************************************************************)
EXTENDS Integers, Sequences, FiniteSets, TLC

VARIABLES
    component,    \* "TurtleQubit" or "XYTip": the class of the one component
    options,      \* its parsed options (self.p / self.parse_options())
    render_mode,  \* self.design.render_mode, owned by the host design
    pc,           \* "idle", or "pads" inside TurtleQubit.make's loop over pads
    todo,         \* indices of the connection pads make() still has to visit
    calls,        \* methods TurtleQubit.make / XYTip.make has called this pass
    registry,     \* add_qgeometry / add_pin calls of the current (latest) pass
    pass_mode,    \* render_mode as the current (latest) pass read it
    prev          \* <<>> or <<[registry, mode]>>: the pass before the latest

vars == <<component, options, render_mode, pc, todo, calls, registry,
          pass_mode, prev>>

---------------------------------------------------------------------------
(* Bounds of the model *)

MaxPads == 2      \* connection pads per TurtleQubit
MaxLayer == 2     \* layer option ranges over 1..MaxLayer
MaxRad == 2       \* rad_i ranges over 1..MaxRad
MaxGap == 2       \* gap ranges over 0..MaxGap
MaxJJ == 3        \* jj_w ranges over 1..MaxJJ
MaxLead == 2      \* XYTip lead_length ranges over 0..MaxLead

---------------------------------------------------------------------------
(* Units and exact trigonometry *)

U(x) == 4 * x          \* x micrometres, in quarter-micrometres
Half(x) == 2 * x       \* 0.5*x micrometres
Abs(x) == IF x < 0 THEN -x ELSE x
Sgn(x) == IF x < 0 THEN -1 ELSE IF x > 0 THEN 1 ELSE 0

CosD(d) == CASE d % 360 = 0 -> 1 [] d % 360 = 90 -> 0
             [] d % 360 = 180 -> -1 [] d % 360 = 270 -> 0
SinD(d) == CASE d % 360 = 0 -> 0 [] d % 360 = 90 -> 1
             [] d % 360 = 180 -> 0 [] d % 360 = 270 -> -1

\* draw.rotate(pt, d, origin=(0,0)): counter-clockwise, degrees
RotPt(p, d) == << p[1] * CosD(d) - p[2] * SinD(d),
                  p[1] * SinD(d) + p[2] * CosD(d) >>
MovePt(p, dx, dy) == << p[1] + dx, p[2] + dy >>
Dist2(p, q) == (p[1] - q[1]) * (p[1] - q[1]) + (p[2] - q[2]) * (p[2] - q[2])

---------------------------------------------------------------------------
(* Shape constructors: one per library call of the source *)

\* draw.Point(c).buffer(r)
Disk(c, r) == [k |-> "disk", c |-> c, r |-> r]
\* draw.Polygon([...]) with Cartesian vertices
Polygon(v) == [k |-> "polygon", v |-> v]
\* draw.LineString([a, b])
LineString(a, b) == [k |-> "line", v |-> <<a, b>>]
\* draw.rectangle(w, h): shapely box(-w/2, -h/2, w/2, h/2); w, h in quarter-um
Rectangle(w, h) ==
    Polygon(<< << w \div 2, -(h \div 2) >>, << w \div 2, h \div 2 >>,
               << -(w \div 2), h \div 2 >>, << -(w \div 2), -(h \div 2) >> >>)
\* shape.boundary
Boundary(a) == [k |-> "boundary", a |-> a]
\* shape.buffer(d, ...)
Buffer(a, d) == [k |-> "buffer", a |-> a, d |-> d]
Intersect(a, b) == [k |-> "intersect", a |-> a, b |-> b]
Subtract(a, b) == [k |-> "subtract", a |-> a, b |-> b]
Union(a, b) == [k |-> "union", a |-> a, b |-> b]

\* An angle  deg + th * theta/2  (degrees; th in {-1, 0, 1})
Ang(deg, th) == [deg |-> deg, th |-> th]
\* A vertex written as (rx * cos(ax), ry * sin(ay))
Polar(rx, ax, ry, ay) == [rx |-> rx, ax |-> ax, ry |-> ry, ay |-> ay]
\* draw.Polygon of such vertices; theta = <<num, den>>; rot/off: the rigid
\* motion applied to the polygon since it was built
Wedge(v, theta) == [k |-> "wedge", v |-> v, theta |-> theta,
                    rot |-> 0, off |-> <<0, 0>>]

RECURSIVE Rotate(_, _)
\* draw.rotate(shape, d, origin=(0,0))
Rotate(s, d) ==
    CASE s.k = "disk" -> [s EXCEPT !.c = RotPt(s.c, d)]
      [] s.k \in {"polygon", "line"} ->
            [s EXCEPT !.v = [i \in DOMAIN s.v |-> RotPt(s.v[i], d)]]
      [] s.k = "wedge" ->
            [s EXCEPT !.rot = (s.rot + d) % 360, !.off = RotPt(s.off, d)]
      [] s.k \in {"boundary", "buffer"} -> [s EXCEPT !.a = Rotate(s.a, d)]
      [] s.k \in {"intersect", "subtract", "union"} ->
            [s EXCEPT !.a = Rotate(s.a, d), !.b = Rotate(s.b, d)]

RECURSIVE Translate(_, _, _)
\* draw.translate(shape, xoff=dx, yoff=dy)
Translate(s, dx, dy) ==
    CASE s.k = "disk" -> [s EXCEPT !.c = MovePt(s.c, dx, dy)]
      [] s.k \in {"polygon", "line"} ->
            [s EXCEPT !.v = [i \in DOMAIN s.v |-> MovePt(s.v[i], dx, dy)]]
      [] s.k = "wedge" -> [s EXCEPT !.off = MovePt(s.off, dx, dy)]
      [] s.k \in {"boundary", "buffer"} ->
            [s EXCEPT !.a = Translate(s.a, dx, dy)]
      [] s.k \in {"intersect", "subtract", "union"} ->
            [s EXCEPT !.a = Translate(s.a, dx, dy),
                      !.b = Translate(s.b, dx, dy)]

\* Place as it would be if the offset were applied once more on every
\* pass after the first (geometry kept and moved again instead of rebuilt)
PlaceAccumulating(s, p) ==
    Translate(Rotate(s, p.rotation),
              U(p.pos_x) * (1 + Len(prev)), U(p.pos_y) * (1 + Len(prev)))

\* "rotate by p.rotation about the origin, then translate to (pos_x, pos_y)"
Place(s, p) == Translate(Rotate(s, p.rotation), U(p.pos_x), U(p.pos_y))

---------------------------------------------------------------------------
(* Host registry calls *)

\* self.add_qgeometry('poly', {name: shape}, layer=layer, subtract=subtract)
AddPoly(name, shape, layer, subtract) ==
    [kind |-> "poly", name |-> name, geom |-> shape,
     layer |-> layer, subtract |-> subtract]
\* The layer add_qgeometry uses when the call passes none (its default)
HostDefaultLayer == 1
\* self.add_qgeometry('junction', dict(name=shape), width=width): no layer
\* and no subtract argument is passed
AddJunction(name, shape, width) ==
    [kind |-> "junction", name |-> name, geom |-> shape, width |-> width,
     layer |-> HostDefaultLayer]
\* self.add_pin(name, line.coords, width)
AddPin(name, line, width) ==
    [kind |-> "pin", name |-> name, points |-> line.v, width |-> width]

---------------------------------------------------------------------------
(* TurtleQubit.make_turtle *)

JJPortHeight == 4   \* 1e-3 mm = 1 um: height of the junction port rectangle
JJLineInset == 2    \* 0.5e-3 mm = 0.5 um: inset of the junction line's ends
TurtleLayer == 1    \* the literal layer=1 of every add_qgeometry('poly', ...)

\* jj_port and its two translated copies
JJPort(p) == Rectangle(U(p.jj_w), JJPortHeight)
JJP1(p) == Translate(JJPort(p), 0, -U(p.rad_i))
JJP2(p) == Translate(JJPort(p), 0, -(U(p.rad_i) + U(p.gap)))

\* inner_pad before rotation and translation
TurtleInnerPad(p, mode) ==
    IF mode = "simulate"
    THEN Union(Disk(<<0, 0>>, U(p.rad_i)), JJP1(p))
    ELSE Disk(<<0, 0>>, U(p.rad_i))

\* TurtlePocket as it would be with the gap subtracted from the radius
TurtlePocketShrunk(p, mode) ==
    IF mode = "simulate"
    THEN Subtract(Disk(<<0, 0>>, U(p.rad_i) - U(p.gap)), JJP2(p))
    ELSE Disk(<<0, 0>>, U(p.rad_i) - U(p.gap))

\* pocket before rotation and translation
TurtlePocket(p, mode) ==
    IF mode = "simulate"
    THEN Subtract(Disk(<<0, 0>>, U(p.rad_i) + U(p.gap)), JJP2(p))
    ELSE Disk(<<0, 0>>, U(p.rad_i) + U(p.gap))

TurtleRectJJ(p) ==
    LineString(<<0, -(U(p.rad_i) + U(p.gap) - JJLineInset)>>,
               <<0, -(U(p.rad_i) + JJLineInset)>>)

\* The three registrations of make_turtle, in the order the code issues them
MakeTurtleRegs(p, mode) ==
    << AddPoly("Qubit", Place(TurtleInnerPad(p, mode), p), TurtleLayer, FALSE),
       AddPoly("Pocket", Place(TurtlePocket(p, mode), p), TurtleLayer, TRUE),
       AddJunction("rect_jj", Place(TurtleRectJJ(p), p), U(p.jj_w)) >>

---------------------------------------------------------------------------
(* TurtleQubit.make_claw *)

\* The three-point wedge claw_inter for outer radius r and angle theta
ClawInter(r, ext, a, theta) ==
    Wedge(<< Polar(0, Ang(0, 0), 0, Ang(0, 0)),
             Polar(r, Ang(a - 90, -1), r, Ang(a - 90, -1)),
             Polar(r + ext, Ang(a - 90, 0), r + ext, Ang(a + 90, 0)),
             Polar(r, Ang(a - 90, 1), r, Ang(a - 90, 1)) >>, theta)

\* yoff of the arm, the port line and cpw_gap in make_claw
ClawArmOffset(p, c) ==
    -(U(p.rad_i) + U(c.res_dist) + Half(c.res_claw_width + c.res_ext))

\* EndOfCoupler as it would be on the arm's inner edge (sign lost)
EndOfCouplerInner(c) == (U(c.res_ext) + Half(c.res_claw_width)) \div 2

\* the y of port_line before translation: -(res_ext + res_claw_width/2)/2
EndOfCoupler(c) == -((U(c.res_ext) + Half(c.res_claw_width)) \div 2)

\* cpw_arm and port_line built around the origin
CpwArm(c) == Rectangle(U(c.cpw_width), U(c.res_ext) + Half(c.res_claw_width))
PortLine(c) == LineString(<<Half(c.cpw_width), EndOfCoupler(c)>>,
                          <<-Half(c.cpw_width), EndOfCoupler(c)>>)
CpwGapRect(c) == Rectangle(U(c.cpw_width) + 2 * U(c.cpw_gap),
                           U(c.res_ext) + Half(c.res_claw_width))

\* The "Round the claw" block: grow, subtract, grow, clip
RoundClaw(res_claw, rr) ==
    LET res_claw_cutout == Subtract(Buffer(res_claw, rr), res_claw)
        res_claw_cutout_buffer == Buffer(res_claw_cutout, rr)
    IN  Intersect(res_claw,
                  Buffer(Subtract(Buffer(res_claw, 2 * rr),
                                  res_claw_cutout_buffer), rr))

\* make_claw up to the list [res_claw, res_gap, port_line] before placement
ClawObjects(p, c) ==
    LET rho == U(p.rad_i) + U(c.res_dist) + Half(c.res_claw_width)
        r == U(p.rad_i) + U(c.res_dist) + U(c.res_claw_width)
        theta == <<U(c.res_arc), r>>
        claw_inter == ClawInter(r, U(c.res_ext), c.res_angle, theta)
        claw_rad == Intersect(Boundary(Disk(<<0, 0>>, rho)), claw_inter)
        res_claw == Buffer(claw_rad, Half(c.res_claw_width))
        yoff == ClawArmOffset(p, c)
        cpw_arm == Rotate(Translate(CpwArm(c), 0, yoff), c.res_angle)
        port_line == Rotate(Translate(PortLine(c), 0, yoff), c.res_angle)
        claw_gap == Buffer(res_claw, U(c.res_s))
        cpw_gap == Rotate(Translate(CpwGapRect(c), 0, yoff), c.res_angle)
        rounded == RoundClaw(res_claw, U(c.res_claw_rounding))
    IN  [res_claw |-> Union(rounded, cpw_arm),
         res_gap |-> Union(claw_gap, cpw_gap),
         port_line |-> port_line]

\* The registrations of make_claw(name)
MakeClawRegs(p, c, name) ==
    LET o == ClawObjects(p, c)
    IN  << AddPoly("res_claw", Place(o.res_claw, p), TurtleLayer, FALSE),
           AddPoly("poly5", Place(o.res_gap, p), TurtleLayer, TRUE),
           AddPin(name, Place(o.port_line, p), U(c.cpw_width)) >>

---------------------------------------------------------------------------
(* TurtleQubit.make_grounded_claw *)

GroundedArmOffset(p, c) ==
    -(U(p.rad_i) + U(c.res_dist) + Half(c.res_claw_width + c.res_ext)
      + U(c.res_s) + U(c.res_g_s))

GroundedClawObjects(p, c) ==
    LET rho == U(p.rad_i) + U(c.res_dist) + Half(c.res_claw_width)
               + U(c.res_s) + U(c.res_g_s)
        r == U(p.rad_i) + U(c.res_dist) + U(c.res_claw_width) + U(c.res_s)
        theta == <<U(c.res_arc), r>>
        claw_inter == ClawInter(r, U(c.res_ext), c.res_angle, theta)
        claw_rad == Intersect(Boundary(Disk(<<0, 0>>, rho)), claw_inter)
        res_claw == Buffer(claw_rad, Half(c.res_claw_width))
        yoff == GroundedArmOffset(p, c)
        cpw_arm == Rotate(Translate(CpwArm(c), 0, yoff), c.res_angle)
        port_line == Rotate(Translate(PortLine(c), 0, yoff), c.res_angle)
        claw_gap == Buffer(res_claw, U(c.res_s))
        cpw_gap == Rotate(Translate(CpwGapRect(c), 0, yoff), c.res_angle)
    IN  [res_claw |-> Union(res_claw, cpw_arm),
         res_gap |-> Union(claw_gap, cpw_gap),
         port_line |-> port_line]

MakeGroundedClawRegs(p, c, name) ==
    LET o == GroundedClawObjects(p, c)
    IN  << AddPoly("res_claw", Place(o.res_claw, p), TurtleLayer, FALSE),
           AddPoly("poly5", Place(o.res_gap, p), TurtleLayer, TRUE),
           AddPin(name, Place(o.port_line, p), U(c.cpw_width)) >>

---------------------------------------------------------------------------
(* XYTip.make *)

\* The main launch polygon, before rounding
XYTipOutline(p) ==
    LET twh == Half(p.trace_width)
        tiph == Half(p.tip_width)
        far == U(p.tip_height) + U(p.taper_height)
    IN  Polygon(<< <<0, twh>>,
                   <<-U(p.taper_height), tiph>>,
                   <<-far, tiph>>,
                   <<-far, -tiph>>,
                   <<-U(p.taper_height), -tiph>>,
                   <<0, -twh>>,
                   <<U(p.lead_length), -twh>>,
                   <<U(p.lead_length), twh>>,
                   <<0, twh>> >>)

\* round_tip_negative_top (s = 1) and round_tip_negative_bottom (s = -1)
RoundTipNegative(p, s) ==
    LET tiph == Half(p.tip_width)
        far == U(p.tip_height) + U(p.taper_height)
        f == U(p.tip_fillet)
        circle == Disk(<<-(far - f), s * (tiph - f)>>, f)
        corner == Polygon(<< <<-(far - f), s * tiph>>,
                             <<-far, s * tiph>>,
                             <<-far, s * (tiph - f)>>,
                             <<-(far - f), s * (tiph - f)>> >>)
    IN  Subtract(corner, circle)

\* xy_tip after the two corners are cut
XYTipShape(p) ==
    Subtract(XYTipOutline(p),
             Union(RoundTipNegative(p, 1), RoundTipNegative(p, -1)))

\* pocket
XYTipPocket(p) ==
    LET twg == Half(p.trace_width) + U(p.trace_gap)
        tipg == Half(p.tip_width) + U(p.tip_gap)
        far == U(p.tip_height) + U(p.taper_height) + U(p.tip_gap)
    IN  Polygon(<< <<0, twg>>,
                   <<-U(p.taper_height), tipg>>,
                   <<-far, tipg>>,
                   <<-far, -tipg>>,
                   <<-U(p.taper_height), -tipg>>,
                   <<0, -twg>>,
                   <<U(p.lead_length), -twg>>,
                   <<U(p.lead_length), twg>>,
                   <<0, twg>> >>)

\* main_pin_line
XYTipPinLine(p) ==
    LineString(<<U(p.lead_length), Half(p.trace_width)>>,
               <<U(p.lead_length), -Half(p.trace_width)>>)

\* draw.rotate(polys1, p.orientation, origin=(0, 0)); draw.translate(...)
PlaceXY(s, p) == Translate(Rotate(s, p.orientation), U(p.pos_x), U(p.pos_y))

\* The three registrations of XYTip.make, in the order the code issues them
XYTipRegs(p) ==
    << AddPoly("xy_tip", PlaceXY(XYTipShape(p), p), p.layer, FALSE),
       AddPoly("pocket", PlaceXY(XYTipPocket(p), p), p.layer, TRUE),
       AddPin("tie", PlaceXY(XYTipPinLine(p), p), U(p.trace_width)) >>

---------------------------------------------------------------------------
(* Option values the model draws from *)

PadNames == <<"readout", "bus1", "bus2", "bus3", "bus4">>
\* the i-th key of options.connection_pads, in the dict's iteration order
PadName(i) == PadNames[i]

Angles == {0, 90, 180, 270}
RenderModes == {"simulate", "fabricate"}

BasePad == [res_arc |-> 2, res_dist |-> 1, res_ext |-> 1, res_angle |-> 90,
            res_claw_width |-> 2, res_claw_rounding |-> 1, res_s |-> 1,
            res_g |-> FALSE, res_g_s |-> 1, cpw_width |-> 2, cpw_gap |-> 1]

BaseTurtle == [rad_i |-> 2, gap |-> 1, jj_w |-> 1, layer |-> 1,
               pos_x |-> 0, pos_y |-> 0, rotation |-> 0,
               connection_pads |-> <<>>]

BaseXY == [trace_width |-> 2, trace_gap |-> 1, lead_length |-> 1,
           tip_width |-> 4, tip_height |-> 2, tip_gap |-> 1,
           taper_height |-> 1, tip_fillet |-> 1,
           orientation |-> 0, pos_x |-> 0, pos_y |-> 0, layer |-> 1]

\* Lists of up to MaxPads pads, each grounded or not, at one of two angles
PadsByFlag ==
    { [BasePad EXCEPT !.res_g = g, !.res_angle = a] :
        g \in BOOLEAN, a \in {90, 180} }
PadLists == UNION { [1..n -> PadsByFlag] : n \in 0..MaxPads }

\* One pad, the lengths of its claw ring varied
PadsByRing ==
    { [BasePad EXCEPT !.res_g = g, !.res_angle = a, !.res_arc = arc,
                      !.res_dist = d, !.res_claw_width = w, !.res_s = s,
                      !.res_g_s = gs, !.res_claw_rounding = rr] :
        g \in BOOLEAN, a \in {0, 90}, arc \in {1, 2}, d \in {0, 1},
        w \in {2, 3}, s \in {0, 1}, gs \in {0, 1}, rr \in {0, 1} }

\* One pad, its angle and the lengths of its arm varied
PadsByArm ==
    { [BasePad EXCEPT !.res_g = g, !.res_angle = a, !.res_ext = ext,
                      !.res_claw_width = w, !.res_s = s, !.res_g_s = gs,
                      !.cpw_gap = cg, !.cpw_width = cw] :
        g \in BOOLEAN, a \in Angles, ext \in {0, 1}, w \in {2, 3},
        s \in {0, 1}, gs \in {0, 1}, cg \in {0, 1}, cw \in {2, 3} }

PadsByShape == PadsByRing \cup PadsByArm

\* TurtleQubit options: (1) pad lists and layers, (2) island and pocket
\* dimensions, placement, (3) one pad of varied shape
TurtleOptions ==
    { [BaseTurtle EXCEPT !.layer = l, !.connection_pads = ps] :
        l \in 1..MaxLayer, ps \in PadLists }
    \cup
    { [BaseTurtle EXCEPT !.rad_i = ri, !.gap = g, !.jj_w = w,
                         !.rotation = rot, !.pos_x = x, !.pos_y = -x,
                         !.connection_pads = <<BasePad>>] :
        ri \in 1..MaxRad, g \in 0..MaxGap, w \in 1..MaxJJ, rot \in Angles,
        x \in {0, 3} }
    \cup
    { [BaseTurtle EXCEPT !.rotation = rot, !.pos_x = x,
                         !.connection_pads = <<c>>] :
        rot \in {0, 270}, x \in {0, 3}, c \in PadsByShape }

XYOptions ==
    { [BaseXY EXCEPT !.lead_length = ll, !.trace_width = tw,
                     !.trace_gap = tg, !.tip_width = tipw, !.tip_gap = tipg,
                     !.tip_height = th, !.taper_height = tap,
                     !.tip_fillet = f] :
        ll \in 0..MaxLead, tw \in {1, 2}, tg \in {0, 1}, tipw \in {1, 4},
        tipg \in {0, 1}, th \in {0, 2}, tap \in {0, 1}, f \in {0, 1} }
    \cup
    { [BaseXY EXCEPT !.orientation = o, !.pos_x = x, !.pos_y = 2 * x,
                     !.layer = l, !.lead_length = ll] :
        o \in Angles, x \in {0, 3}, l \in 1..MaxLayer, ll \in 0..MaxLead }

---------------------------------------------------------------------------
(* The state machine *)

Init ==
    /\ \/ component = "TurtleQubit" /\ options \in TurtleOptions
       \/ component = "XYTip" /\ options \in XYOptions
    /\ render_mode \in RenderModes
    /\ pc = "idle"
    /\ todo = <<>>
    /\ calls = <<>>
    /\ registry = <<>>
    /\ pass_mode = render_mode
    /\ prev = <<>>

\* What a new pass keeps of the pass before it (the host's rebuild drops the
\* component's old rows before it calls make)
Remember == IF registry = <<>> THEN <<>>
            ELSE << [registry |-> registry, mode |-> pass_mode] >>

\* The next pad make()'s loop visits
NextPad == options.connection_pads[Head(todo)]

\* TurtleQubit.make, up to and including self.make_turtle()
MakeTurtle ==
    /\ component = "TurtleQubit"
    /\ pc = "idle"
    /\ prev' = Remember
    /\ pass_mode' = render_mode
    /\ registry' = MakeTurtleRegs(options, render_mode)
    /\ calls' = << <<"make_turtle">> >>
    /\ todo' = [i \in 1..Len(options.connection_pads) |-> i]
    /\ pc' = IF Len(options.connection_pads) = 0 THEN "idle" ELSE "pads"
    /\ UNCHANGED <<component, options, render_mode>>

\* CallsGrounded with the two branches of make()'s if swapped
CallsGroundedSwapped(c) == ~c.res_g

\* Which claw variant make() calls for pad c
CallsGrounded(c) == c.res_g

\* One iteration of make()'s loop, else branch: self.make_claw(name)
MakeClaw ==
    /\ pc = "pads"
    /\ ~CallsGrounded(NextPad)
    /\ registry' = registry \o MakeClawRegs(options, NextPad, PadName(Head(todo)))
    /\ calls' = Append(calls, <<"make_claw", PadName(Head(todo))>>)
    /\ todo' = Tail(todo)
    /\ pc' = IF Tail(todo) = <<>> THEN "idle" ELSE "pads"
    /\ UNCHANGED <<component, options, render_mode, pass_mode, prev>>

\* One iteration of make()'s loop, if branch: self.make_grounded_claw(name)
MakeGroundedClaw ==
    /\ pc = "pads"
    /\ CallsGrounded(NextPad)
    /\ registry' = registry
                   \o MakeGroundedClawRegs(options, NextPad, PadName(Head(todo)))
    /\ calls' = Append(calls, <<"make_grounded_claw", PadName(Head(todo))>>)
    /\ todo' = Tail(todo)
    /\ pc' = IF Tail(todo) = <<>> THEN "idle" ELSE "pads"
    /\ UNCHANGED <<component, options, render_mode, pass_mode, prev>>

\* XYTip.make
XYTipMake ==
    /\ component = "XYTip"
    /\ pc = "idle"
    /\ prev' = Remember
    /\ pass_mode' = render_mode
    /\ registry' = XYTipRegs(options)
    /\ calls' = << <<"make">> >>
    /\ UNCHANGED <<component, options, render_mode, pc, todo>>

\* The host switches the design's render mode between two passes
SetRenderMode ==
    /\ pc = "idle"
    /\ \E m \in RenderModes :
          /\ m # render_mode
          /\ render_mode' = m
    /\ UNCHANGED <<component, options, pc, todo, calls, registry,
                   pass_mode, prev>>

Next ==
    \/ MakeTurtle
    \/ MakeClaw
    \/ MakeGroundedClaw
    \/ XYTipMake
    \/ SetRenderMode

Spec == Init /\ [][Next]_vars

---------------------------------------------------------------------------
(* Containment of one shape in another, used to state the claims.         *)
(* Exact (integer arithmetic) on disks and polygons; through the library  *)
(* calls it uses only  a - b <= a,  a /\ b <= a,  a <= a.buffer(d), d >= 0 *)
(* and  a <= b \/ c  when  a <= b  or  a <= c.                             *)

Cross(o, a, b) == (a[1] - o[1]) * (b[2] - o[2]) - (a[2] - o[2]) * (b[1] - o[1])
Min(a, b) == IF a < b THEN a ELSE b
Max(a, b) == IF a > b THEN a ELSE b
Dbl(q) == <<2 * q[1], 2 * q[2]>>
Succ(i, n) == IF i = n THEN 1 ELSE i + 1

\* q lies on the closed segment a-b
OnSegment(q, a, b) ==
    /\ Cross(a, b, q) = 0
    /\ Min(a[1], b[1]) <= q[1] /\ q[1] <= Max(a[1], b[1])
    /\ Min(a[2], b[2]) <= q[2] /\ q[2] <= Max(a[2], b[2])

\* the ray from q towards +x crosses the edge a-b
RayCrosses(q, a, b) ==
    /\ (a[2] > q[2]) # (b[2] > q[2])
    /\ IF b[2] > a[2]
       THEN (q[1] - a[1]) * (b[2] - a[2]) < (q[2] - a[2]) * (b[1] - a[1])
       ELSE (q[1] - a[1]) * (b[2] - a[2]) > (q[2] - a[2]) * (b[1] - a[1])

\* q is in the closed polygon with vertices v (even-odd rule)
InPolygon(q, v) ==
    LET n == Len(v)
    IN  \/ \E i \in 1..n : OnSegment(q, v[i], v[Succ(i, n)])
        \/ Cardinality({i \in 1..n : RayCrosses(q, v[i], v[Succ(i, n)])}) % 2 = 1

\* the open segments a-b and c-d cross at one interior point
ProperCross(a, b, c, d) ==
    /\ Sgn(Cross(a, b, c)) * Sgn(Cross(a, b, d)) < 0
    /\ Sgn(Cross(c, d, a)) * Sgn(Cross(c, d, b)) < 0

\* polygon v inside closed polygon w: vertices and edge midpoints of v are
\* in w, and no edge of v crosses an edge of w
PolygonInPolygon(v, w) ==
    LET n == Len(v)
        m == Len(w)
        w2 == [j \in 1..m |-> Dbl(w[j])]
    IN  /\ \A i \in 1..n :
              /\ InPolygon(Dbl(v[i]), w2)
              /\ InPolygon(<<v[i][1] + v[Succ(i, n)][1],
                             v[i][2] + v[Succ(i, n)][2]>>, w2)
        /\ \A i \in 1..n, j \in 1..m :
              ~ProperCross(v[i], v[Succ(i, n)], w[j], w[Succ(j, m)])

\* bounding box <<xmin, ymin, xmax, ymax>> of an axis-parallel rectangle
BBox(v) ==
    LET xs == {v[i][1] : i \in DOMAIN v}
        ys == {v[i][2] : i \in DOMAIN v}
    IN  << CHOOSE x \in xs : \A z \in xs : x <= z,
           CHOOSE y \in ys : \A z \in ys : y <= z,
           CHOOSE x \in xs : \A z \in xs : x >= z,
           CHOOSE y \in ys : \A z \in ys : y >= z >>

Clamp(x, lo, hi) == IF x < lo THEN lo ELSE IF x > hi THEN hi ELSE x

\* The interiors of a and of the axis-parallel rectangle b share no point
Apart(a, b) ==
    LET bb == BBox(b.v)
    IN  \/ bb[1] = bb[3] \/ bb[2] = bb[4]
        \/ CASE a.k = "disk" ->
                  \/ a.r = 0
                  \/ Dist2(a.c, <<Clamp(a.c[1], bb[1], bb[3]),
                                  Clamp(a.c[2], bb[2], bb[4])>>) >= a.r * a.r
             [] a.k = "polygon" ->
                  LET ab == BBox(a.v)
                  IN  \/ ab[1] = ab[3] \/ ab[2] = ab[4]
                      \/ ab[3] <= bb[1] \/ bb[3] <= ab[1]
                      \/ ab[4] <= bb[2] \/ bb[4] <= ab[2]
             [] OTHER -> FALSE

RECURSIVE Contains(_, _)
\* b contains a: no point of a lies outside the closed shape b
Contains(b, a) ==
    IF a = b THEN TRUE
    ELSE CASE a.k = "union" -> Contains(b, a.a) /\ Contains(b, a.b)
           [] a.k = "subtract" -> Contains(b, a.a)
           [] a.k = "intersect" -> Contains(b, a.a) \/ Contains(b, a.b)
           [] b.k = "subtract" /\ b.b.k = "polygon" ->
                 Contains(b.a, a) /\ Apart(a, b.b)
           [] b.k = "union" -> Contains(b.a, a) \/ Contains(b.b, a)
           [] b.k = "buffer" -> b.d >= 0 /\ Contains(b.a, a)
           [] a.k = "disk" /\ b.k = "disk" ->
                 /\ a.r <= b.r
                 /\ Dist2(a.c, b.c) <= (b.r - a.r) * (b.r - a.r)
           [] a.k = "polygon" /\ b.k = "disk" ->
                 \A i \in DOMAIN a.v : Dist2(a.v[i], b.c) <= b.r * b.r
           [] a.k = "polygon" /\ b.k = "polygon" ->
                 PolygonInPolygon(a.v, b.v)
           [] OTHER -> FALSE

\* The poly registrations of the registry, in order
Polys == SelectSeq(registry, LAMBDA e : e.kind = "poly")
Pins == SelectSeq(registry, LAMBDA e : e.kind = "pin")
Junctions == SelectSeq(registry, LAMBDA e : e.kind = "junction")

---------------------------------------------------------------------------
(* C1: cutouts contain their conductive shapes *)

\* The subtractive shape that goes with each additive shape
CutoutOf(name) == CASE name = "xy_tip" -> "pocket"
                    [] name = "Qubit" -> "Pocket"
                    [] name = "res_claw" -> "poly5"

\* Indices i where registry[i] is an additive poly and registry[i+1] the
\* subtractive poly of the same group
ShapeGroups ==
    { i \in 1..(Len(registry) - 1) :
        /\ registry[i].kind = "poly" /\ ~registry[i].subtract
        /\ registry[i + 1].kind = "poly" /\ registry[i + 1].subtract
        /\ registry[i + 1].name = CutoutOf(registry[i].name) }

\* In simulate mode the island is extended by a jj_w x 1um rectangle centred
\* on its rim and the pocket loses the same rectangle centred on its own rim.
\* The extension stays inside the notched pocket iff gap >= 1um and its two
\* outer corners (+-jj_w/2, -(rad_i + 0.5um)) are inside the pocket disk.
IslandExtensionFits(p) ==
    /\ U(p.gap) >= JJPortHeight
    /\ Half(p.jj_w) * Half(p.jj_w)
         + (U(p.rad_i) + JJPortHeight \div 2) * (U(p.rad_i) + JJPortHeight \div 2)
       <= (U(p.rad_i) + U(p.gap)) * (U(p.rad_i) + U(p.gap))

\* C1 as claimed: for every non-negative parameter set and either render
\* mode, each registered subtractive shape contains the additive shape of
\* its group (pocket/xy_tip, Pocket/Qubit, poly5/res_claw).
C1_CutoutContainsShape ==
    \A i \in ShapeGroups : Contains(registry[i + 1].geom, registry[i].geom)

\* C1 amended: the same, except that Pocket need contain Qubit in simulate
\* mode only when the island extension fits (gap >= 1um and the extension's
\* outer corners lie within the pocket disk).
C1_CutoutContainsShapeWhenFits ==
    \A i \in ShapeGroups :
        (registry[i].name = "Qubit" /\ pass_mode = "simulate"
            => IslandExtensionFits(options))
        => Contains(registry[i + 1].geom, registry[i].geom)

\* A finished simulate-mode pass of a TurtleQubit whose extension fits, with
\* a claw group registered after the island group
C1_Witness ==
    /\ component = "TurtleQubit" /\ pc = "idle"
    /\ pass_mode = "simulate" /\ IslandExtensionFits(options)
    /\ Cardinality(ShapeGroups) >= 2
    /\ registry[1].geom.k = "union" /\ registry[2].geom.k = "subtract"

\* Auxiliary: where the extension does not fit, Pocket does not contain
\* Qubit (the amendment excludes no more than it must)
ExtensionMisfitEscapes ==
    \A i \in ShapeGroups :
        (registry[i].name = "Qubit" /\ pass_mode = "simulate"
            /\ ~IslandExtensionFits(options))
        => ~Contains(registry[i + 1].geom, registry[i].geom)

---------------------------------------------------------------------------
(* C3: order and number of the registrations of one TurtleQubit.make pass *)

NumPads == Len(options.connection_pads)

\* What the claim fixes of a registration: its kind, whether it is
\* subtractive, and its name where the claim names it
Signature(e, i) ==
    [kind |-> e.kind,
     subtract |-> e.kind = "poly" /\ e.subtract,
     name |-> IF e.kind = "pin" \/ i <= 2 THEN e.name ELSE "*"]

\* The i-th registration the claim expects of a pass
ExpectedSignature(i) ==
    CASE i = 1 -> [kind |-> "poly", subtract |-> FALSE, name |-> "Qubit"]
      [] i = 2 -> [kind |-> "poly", subtract |-> TRUE, name |-> "Pocket"]
      [] i = 3 -> [kind |-> "junction", subtract |-> FALSE, name |-> "*"]
      [] i > 3 /\ i % 3 = 1 ->
            [kind |-> "poly", subtract |-> FALSE, name |-> "*"]
      [] i > 3 /\ i % 3 = 2 ->
            [kind |-> "poly", subtract |-> TRUE, name |-> "*"]
      [] i > 3 /\ i % 3 = 0 ->
            [kind |-> "pin", subtract |-> FALSE, name |-> PadName(i \div 3 - 1)]

\* The j-th call the claim expects of a pass (j = 1: make_turtle)
ExpectedCall(j) ==
    IF j = 1 THEN <<"make_turtle">>
    ELSE << IF options.connection_pads[j - 1].res_g
            THEN "make_grounded_claw" ELSE "make_claw",
            PadName(j - 1) >>

\* C3: at every point of a TurtleQubit.make pass the registrations so far
\* are, in order: additive 'Qubit', subtractive 'Pocket', one junction, then
\* per visited pad (in iteration order, by the variant its res_g selects) an
\* additive poly, a subtractive poly and a pin of the pad's name; a finished
\* pass over n pads holds 1+n additive and 1+n subtractive polys, 1 junction
\* and n pins.
C3_RegistrationOrder ==
    (component = "TurtleQubit" /\ registry # <<>>) =>
        /\ Len(registry) = 3 + 3 * (NumPads - Len(todo))
        /\ Len(calls) = 1 + (NumPads - Len(todo))
        /\ \A i \in 1..Len(registry) :
              Signature(registry[i], i) = ExpectedSignature(i)
        /\ \A j \in 1..Len(calls) : calls[j] = ExpectedCall(j)
        /\ pc = "idle" =>
              /\ todo = <<>>
              /\ Len(SelectSeq(Polys, LAMBDA e : ~e.subtract)) = 1 + NumPads
              /\ Len(SelectSeq(Polys, LAMBDA e : e.subtract)) = 1 + NumPads
              /\ Len(Junctions) = 1
              /\ Len(Pins) = NumPads

\* A finished pass over two pads, one of each variant
C3_Witness ==
    /\ component = "TurtleQubit" /\ pc = "idle" /\ NumPads = 2
    /\ Len(registry) = 9
    /\ \E j, l \in 2..3 : calls[j][1] = "make_claw"
                          /\ calls[l][1] = "make_grounded_claw"

---------------------------------------------------------------------------
(* C9: names of the polys of one pass *)

\* C9 as claimed: within one TurtleQubit.make pass no two registered polys
\* share a name.
C9_PolyNamesDistinct ==
    component = "TurtleQubit" =>
        \A i, j \in 1..Len(Polys) : i # j => Polys[i].name # Polys[j].name

---------------------------------------------------------------------------
(* C10: layer of the registered shapes *)

\* C10 as claimed: every poly and junction a make pass registers is on the
\* layer the component's layer option gives.
C10_ShapesOnLayerOption ==
    \A i \in 1..Len(registry) :
        registry[i].kind \in {"poly", "junction"}
            => registry[i].layer = options.layer

---------------------------------------------------------------------------
(* C4: two passes with the same options *)

---------------------------------------------------------------------------
(* The registrations of the j-th connection pad, and what they are made of *)

\* Pads whose claw has been registered in the current pass
ClawGroups ==
    IF component = "TurtleQubit"
    THEN { j \in 1..NumPads : 3 * j + 3 <= Len(registry) }
    ELSE {}
Pad(j) == options.connection_pads[j]
ClawPoly(j) == registry[3 * j + 1]
GapPoly(j) == registry[3 * j + 2]
ClawPin(j) == registry[3 * j + 3]

\* res_gap = union(claw_gap, cpw_gap), claw_gap = res_claw.buffer(res_s),
\* res_claw = claw_rad.buffer(w/2), claw_rad = circle.boundary /\ claw_inter
StrokeOf(gap) == gap.a.a
WedgeOf(gap) == StrokeOf(gap).a.b
RingRadiusOf(gap) == StrokeOf(gap).a.a.a.r
\* res_claw = union(claw, cpw_arm)
ArmOf(claw) == claw.b

QubitCentre == <<U(options.pos_x), U(options.pos_y)>>

---------------------------------------------------------------------------
(* C2: the two claw variants differ only by the isolation gap *)

RECURSIVE Skeleton(_)
\* The library calls that built a shape, in order, without their numbers
Skeleton(s) ==
    CASE s.k \in {"disk", "polygon", "line", "wedge"} -> [k |-> s.k]
      [] s.k \in {"boundary", "buffer"} -> [k |-> s.k, a |-> Skeleton(s.a)]
      [] s.k \in {"intersect", "subtract", "union"} ->
            [k |-> s.k, a |-> Skeleton(s.a), b |-> Skeleton(s.b)]

\* Width and height of an axis-parallel rectangle, as a set
Extent(v) == LET bb == BBox(v) IN {bb[3] - bb[1], bb[4] - bb[2]}

\* What the other claw variant would have registered for pad j
OtherVariantRegs(j) ==
    IF Pad(j).res_g THEN MakeClawRegs(options, Pad(j), PadName(j))
    ELSE MakeGroundedClawRegs(options, Pad(j), PadName(j))

\* C2 as claimed: for a pad with otherwise fixed options, the variant that
\* ran and the other variant build claw and gap by the same library calls
\* in the same order (arc, stroke, rounding, union with the arm; gap
\* outline), and their arm rectangles and pin widths are equal.
C2_VariantsDifferOnlyByGap ==
    \A j \in ClawGroups :
        LET other == OtherVariantRegs(j)
        IN  /\ Skeleton(ClawPoly(j).geom) = Skeleton(other[1].geom)
            /\ Skeleton(GapPoly(j).geom) = Skeleton(other[2].geom)
            /\ Extent(ArmOf(ClawPoly(j).geom).v) = Extent(ArmOf(other[1].geom).v)
            /\ ClawPin(j).width = other[3].width

\* Auxiliary: the part of C2 about the coupler arm and the pin width alone
VariantsShareArmAndPinWidth ==
    \A j \in ClawGroups :
        LET other == OtherVariantRegs(j)
        IN  /\ Extent(ArmOf(ClawPoly(j).geom).v) = Extent(ArmOf(other[1].geom).v)
            /\ Extent(ArmOf(ClawPoly(j).geom).v)
                 = {U(Pad(j).cpw_width),
                    U(Pad(j).res_ext) + Half(Pad(j).res_claw_width)}
            /\ ClawPin(j).width = other[3].width

---------------------------------------------------------------------------
(* C5: the pin of a connection pad sits on the arm's outer edge *)

\* a and b are the two ends of one edge of the polygon v
IsEdge(a, b, v) ==
    \E i \in 1..Len(v) : {a, b} = {v[i], v[Succ(i, Len(v))]}

\* C5: for every registered connection pad, in both variants, the pin's two
\* points are the ends of the edge of the registered arm rectangle farthest
\* from the qubit centre, are cpw_width apart, and the pin width is
\* cpw_width.
C5_PinOnOuterArmEdge ==
    \A j \in ClawGroups :
        LET arm == ArmOf(ClawPoly(j).geom).v
            pin == ClawPin(j).points
            cw == U(Pad(j).cpw_width)
        IN  /\ IsEdge(pin[1], pin[2], arm)
            /\ \A i \in 1..Len(arm), e \in 1..2 :
                  Dist2(arm[i], QubitCentre) <= Dist2(pin[e], QubitCentre)
            /\ \A i \in 1..Len(arm) :
                  arm[i] \notin {pin[1], pin[2]} =>
                      Dist2(arm[i], QubitCentre) < Dist2(pin[1], QubitCentre)
            /\ Dist2(pin[1], pin[2]) = cw * cw
            /\ ClawPin(j).width = cw

\* A finished pass of a rotated, displaced qubit with a grounded claw whose
\* isolation gap is not zero, at an angle other than the default
C5_Witness ==
    /\ component = "TurtleQubit" /\ pc = "idle"
    /\ options.rotation = 270 /\ options.pos_x # 0
    /\ \E j \in ClawGroups :
          /\ Pad(j).res_g /\ Pad(j).res_g_s > 0 /\ Pad(j).res_s > 0
          /\ Pad(j).res_angle = 180 /\ Pad(j).res_ext > 0

---------------------------------------------------------------------------
(* C6: the XYTip pin *)

\* A registered point taken back to the XYTip's local frame
XYLocal(q) ==
    RotPt(MovePt(q, -U(options.pos_x), -U(options.pos_y)),
          360 - options.orientation)

\* C6 as claimed: in the local frame the 'tie' pin's line has its midpoint
\* at the origin (the lead's inner edge), spans the trace width, and the pin
\* width is trace_width.
C6_PinAtLeadInnerEdge ==
    (component = "XYTip" /\ registry # <<>>) =>
        LET pin == registry[3]
            a == XYLocal(pin.points[1])
            b == XYLocal(pin.points[2])
        IN  /\ pin.name = "tie"
            /\ <<a[1] + b[1], a[2] + b[2]>> = <<0, 0>>
            /\ {a[2], b[2]} = {Half(options.trace_width),
                               -Half(options.trace_width)}
            /\ pin.width = U(options.trace_width)

\* Auxiliary: where the code puts the pin (the lead's far end)
PinAtLeadOuterEdge ==
    (component = "XYTip" /\ registry # <<>>) =>
        LET pin == registry[3]
            a == XYLocal(pin.points[1])
            b == XYLocal(pin.points[2])
        IN  /\ a[1] = U(options.lead_length) /\ b[1] = U(options.lead_length)
            /\ {a[2], b[2]} = {Half(options.trace_width),
                               -Half(options.trace_width)}
            /\ pin.width = U(options.trace_width)

---------------------------------------------------------------------------
(* C7: theta is res_arc over the outer radius of the claw ring *)

\* C7 as claimed: in both variants theta times the outer radius of the
\* stroked ring (radius of the circle whose boundary is taken, plus
\* res_claw_width/2) is res_arc.  theta = <<num, den>> is num/den.
C7_ThetaTimesOuterRadiusIsArc ==
    \A j \in ClawGroups :
        LET gap == GapPoly(j).geom
            theta == WedgeOf(gap).theta
            outer == RingRadiusOf(gap) + StrokeOf(gap).d
        IN  theta[1] * outer = U(Pad(j).res_arc) * theta[2]

\* Auxiliary: C7 restricted to make_claw, and to res_g_s = 0
ThetaRightWithoutGroundStrip ==
    \A j \in ClawGroups :
        (~Pad(j).res_g \/ Pad(j).res_g_s = 0) =>
            LET gap == GapPoly(j).geom
                theta == WedgeOf(gap).theta
                outer == RingRadiusOf(gap) + StrokeOf(gap).d
            IN  theta[1] * outer = U(Pad(j).res_arc) * theta[2]

---------------------------------------------------------------------------
(* C8: the middle vertex of the wedge *)

\* Cartesian coordinates of a wedge vertex that carries no theta
Cartesian(q) == <<q.rx * CosD(q.ax.deg), q.ry * SinD(q.ay.deg)>>

\* C8 as claimed: for every res_angle the wedge's middle outer vertex is at
\* distance r + res_ext from the origin in direction res_angle - 90 degrees,
\* which is the bisector of the two arc-end vertices and the axis of the
\* coupling arm, in both variants.
C8_WedgeTipOnClawAxis ==
    \A j \in ClawGroups :
        LET w == WedgeOf(GapPoly(j).geom).v
            a == Pad(j).res_angle
            reach == w[2].rx + U(Pad(j).res_ext)
            axis == <<CosD(a - 90), SinD(a - 90)>>
            arm == ArmOf(ClawPoly(j).geom).v
            armc == RotPt(<<arm[1][1] + arm[3][1] - 2 * QubitCentre[1],
                            arm[1][2] + arm[3][2] - 2 * QubitCentre[2]>>,
                          360 - options.rotation)
        IN  /\ Cartesian(w[3]) = <<reach * axis[1], reach * axis[2]>>
            /\ w[2].ax = w[2].ay /\ w[4].ax = w[4].ay
            /\ w[2].ax.th + w[4].ax.th = 0
            /\ w[2].ax.deg = w[4].ax.deg /\ (w[2].ax.deg - (a - 90)) % 360 = 0
            /\ Cross(<<0, 0>>, armc, axis) = 0
            /\ armc[1] * axis[1] + armc[2] * axis[2] > 0

\* Auxiliary: C8 at the angles where cos(res_angle) = 0
WedgeTipOnAxisAtRightAngles ==
    \A j \in ClawGroups :
        Pad(j).res_angle \in {90, 270} =>
            LET w == WedgeOf(GapPoly(j).geom).v
                a == Pad(j).res_angle
                reach == w[2].rx + U(Pad(j).res_ext)
            IN  Cartesian(w[3]) = <<reach * CosD(a - 90), reach * SinD(a - 90)>>

=============================================================================
